---- MODULE Spec2Model ----
(***************************************************************************)
(* Model of zenml.core.local_service.LocalService: the local registry of   *)
(* providers, artifact stores and metadata stores, persisted to            *)
(* zenservice.json after every mutation.                                   *)
(*                                                                         *)
(* Every public method of LocalService is one action.  A method body is    *)
(* the sequential composition of its statements: each statement is an      *)
(* operator from a service state record to a service state record, and     *)
(* the action commits the record the last statement returns.  The record   *)
(* carries a log of the side effects in the order the statements made them.*)
(***************************************************************************)
EXTENDS Integers, Sequences, FiniteSets, TLC

VARIABLES
    providers,            \* LocalService.providers: key -> provider
    metadata_store_map,   \* LocalService.metadata_store_map: key -> UUIDSourceTuple
    artifact_store_map,   \* LocalService.artifact_store_map: key -> UUIDSourceTuple
    orchestrator_map,     \* LocalService.orchestrator_map: key -> UUIDSourceTuple
    service_file,         \* content of zenservice.json, or NoFile
    component_files,      \* uuids of the components whose own file exists
    last,                 \* the call that was made last, its outcome and its effects
    registered,           \* history: what the caller registered and has not deleted
    injected,             \* number of calls in which a collaborator failed
    callers               \* concurrent callers: lock, positions, results, own copies

vars == <<providers, metadata_store_map, artifact_store_map, orchestrator_map,
          service_file, component_files, last, registered, injected, callers>>

(***************************************************************************)
(* Bounds of the model.                                                    *)
(***************************************************************************)
NumProviders == 2
NumComponents == 2
MaxEntries == 2
MaxFaults == 2

\* The logical keys the caller uses, in each of the three namespaces.
Keys == {"a1", "m1"}

\* Provider objects the caller can pass.
Providers == {[id |-> i] : i \in 1..NumProviders}

\* The concrete component classes; a component's class is fixed at creation.
ArtifactClasses == <<"LocalArtifactStore", "GCPArtifactStore">>
MetadataClasses == <<"SQLiteMetadataStore", "MySQLMetadataStore">>
ClassAt(classes, i) == classes[((i - 1) % Len(classes)) + 1]

\* Component instances the caller can pass; uuids are unique over all of them.
ArtifactStore(i) == [uuid |-> <<"a", i>>, cls |-> ClassAt(ArtifactClasses, i)]
MetadataStore(i) == [uuid |-> <<"m", i>>, cls |-> ClassAt(MetadataClasses, i)]
ArtifactStores == {ArtifactStore(i) : i \in 1..NumComponents}
MetadataStores == {MetadataStore(i) : i \in 1..NumComponents}

NoFile == [exists |-> FALSE]
EmptyMap == [k \in {} |-> 0]

Put(m, key, v) == [k \in (DOMAIN m) \cup {key} |-> IF k = key THEN v ELSE m[k]]
Del(m, key) == [k \in (DOMAIN m) \ {key} |-> m[k]]

(***************************************************************************)
(* Collaborators of LocalService.                                          *)
(***************************************************************************)

\* source_utils.resolve_class: the importable path of a class.
ModuleOf(cls) ==
    CASE cls = "LocalArtifactStore" -> "zenml.artifact_stores.local_artifact_store"
      [] cls = "GCPArtifactStore" -> "zenml.artifact_stores.gcp_artifact_store"
      [] cls = "SQLiteMetadataStore" -> "zenml.metadata.sqlite_metadata_wrapper"
      [] cls = "MySQLMetadataStore" -> "zenml.metadata.mysql_metadata_wrapper"
resolve_class(cls) == <<ModuleOf(cls), cls>>

\* The Component Resolver: source locator -> class.
load_source_path_class(source) == source[2]

UUIDSourceTuple(uuid, source) == [uuid |-> uuid, source |-> source]

\* mapping_utils.get_component_from_key: the live component of a reference.
get_component_from_key(key, mapping) ==
    [uuid |-> mapping[key].uuid, cls |-> load_source_path_class(mapping[key].source)]

\* mapping_utils.get_components_from_store: one live component per reference.
get_components_from_store(store_name, mapping) ==
    [k \in DOMAIN mapping |-> get_component_from_key(k, mapping)]

\* The serialized form of the service: JSON objects are sets of (name, value)
\* pairs, a UUIDSourceTuple is the array [uuid, source], a provider its fields.
DumpProvider(p) == {<<"id", p.id>>}
DumpTuple(t) == <<t.uuid, t.source>>
DumpProviders(m) == {<<k, DumpProvider(m[k])>> : k \in DOMAIN m}
DumpTuples(m) == {<<k, DumpTuple(m[k])>> : k \in DOMAIN m}
Serialize(s) ==
    [exists |-> TRUE,
     providers |-> DumpProviders(s.providers),
     metadata_store_map |-> DumpTuples(s.metadata_store_map),
     artifact_store_map |-> DumpTuples(s.artifact_store_map),
     orchestrator_map |-> DumpTuples(s.orchestrator_map)]

ParseProvider(o) == [id |-> (CHOOSE f \in o : f[1] = "id")[2]]
ParseTuple(a) == UUIDSourceTuple(a[1], a[2])
Member(o, name) == (CHOOSE f \in o : f[1] = name)[2]
ParseProviders(o) == [k \in {f[1] : f \in o} |-> ParseProvider(Member(o, k))]
ParseTuples(o) == [k \in {f[1] : f \in o} |-> ParseTuple(Member(o, k))]

\* The mappings of a service constructed with no file on disk.
EmptyService ==
    [providers |-> EmptyMap, metadata_store_map |-> EmptyMap,
     artifact_store_map |-> EmptyMap, orchestrator_map |-> EmptyMap]

\* The four mappings of a service constructed while `file` is on disk.
Load(file) ==
    IF file = NoFile
    THEN EmptyService
    ELSE [providers |-> ParseProviders(file.providers),
          metadata_store_map |-> ParseTuples(file.metadata_store_map),
          artifact_store_map |-> ParseTuples(file.artifact_store_map),
          orchestrator_map |-> ParseTuples(file.orchestrator_map)]

(***************************************************************************)
(* Service state records and the statements of the method bodies.          *)
(***************************************************************************)
Self ==
    [providers |-> providers,
     metadata_store_map |-> metadata_store_map,
     artifact_store_map |-> artifact_store_map,
     orchestrator_map |-> orchestrator_map,
     service_file |-> service_file,
     component_files |-> component_files,
     log |-> <<>>,
     raised |-> "",
     fault |-> "none"]

\* The service state of a call during which one collaborator call fails.
Faulty(fault) == [Self EXCEPT !.fault = fault]

Mappings(s) ==
    [providers |-> s.providers,
     metadata_store_map |-> s.metadata_store_map,
     artifact_store_map |-> s.artifact_store_map,
     orchestrator_map |-> s.orchestrator_map]

\* A statement raises: the statements after it are skipped.
Raise(s, exception, event) ==
    [s EXCEPT !.raised = exception, !.log = Append(@, event)]

\* BaseComponent.update on a store component: write the component's own file.
component_update(s, c) ==
    IF s.raised # ""
    THEN s
    ELSE IF s.fault = "component_update"
         THEN Raise(s, "ComponentError", <<"component_update", c.uuid, "raised">>)
         ELSE [s EXCEPT !.component_files = @ \cup {c.uuid},
                        !.log = Append(@, <<"component_update", c.uuid>>)]

\* BaseComponent.delete on a store component: remove the component's own file.
component_delete(s, c) ==
    IF s.raised # ""
    THEN s
    ELSE IF s.fault = "component_delete"
         THEN Raise(s, "ComponentError", <<"component_delete", c.uuid, "raised">>)
         ELSE [s EXCEPT !.component_files = @ \ {c.uuid},
                        !.log = Append(@, <<"component_delete", c.uuid>>)]

\* self.update(): write the whole service to zenservice.json.
service_update(s) ==
    IF s.raised # ""
    THEN s
    ELSE IF s.fault = "service_update"
         THEN Raise(s, "PersistError", <<"service_update", "raised">>)
         ELSE [s EXCEPT !.service_file = Serialize(s),
                        !.log = Append(@, <<"service_update">>)]

\* super().delete(): remove zenservice.json.
service_delete(s) ==
    IF s.raised # ""
    THEN s
    ELSE [s EXCEPT !.service_file = NoFile,
                   !.log = Append(@, <<"service_delete">>)]

\* self.<mapping of kind>[key] = v
set_item(s, kind, key, v) ==
    IF s.raised # ""
    THEN s
    ELSE LET t == CASE kind = "provider" ->
                          [s EXCEPT !.providers = Put(@, key, v)]
                    [] kind = "artifact" ->
                          [s EXCEPT !.artifact_store_map = Put(@, key, v)]
                    [] kind = "metadata" ->
                          [s EXCEPT !.metadata_store_map = Put(@, key, v)]
         IN  [t EXCEPT !.log = Append(@, <<"set_item", kind, key>>)]

\* del self.<mapping of kind>[key]
del_item(s, kind, key) ==
    IF s.raised # ""
    THEN s
    ELSE LET t == CASE kind = "provider" ->
                          [s EXCEPT !.providers = Del(@, key)]
                    [] kind = "artifact" ->
                          [s EXCEPT !.artifact_store_map = Del(@, key)]
                    [] kind = "metadata" ->
                          [s EXCEPT !.metadata_store_map = Del(@, key)]
         IN  [t EXCEPT !.log = Append(@, <<"del_item", kind, key>>)]

ServiceState ==
    <<providers, metadata_store_map, artifact_store_map, orchestrator_map,
      service_file, component_files>>

Commit(s) ==
    /\ providers' = s.providers
    /\ metadata_store_map' = s.metadata_store_map
    /\ artifact_store_map' = s.artifact_store_map
    /\ orchestrator_map' = s.orchestrator_map
    /\ service_file' = s.service_file
    /\ component_files' = s.component_files

None == [none |-> TRUE]

(***************************************************************************)
(* Initial states: a service constructed with no zenservice.json, or with  *)
(* the file an earlier run left after registering "a1" and "m1".           *)
(***************************************************************************)
EarlierRun ==
    [providers |-> EmptyMap,
     metadata_store_map |->
        Put(EmptyMap, "m1",
            UUIDSourceTuple(MetadataStore(1).uuid,
                            resolve_class(MetadataStore(1).cls))),
     artifact_store_map |->
        Put(EmptyMap, "a1",
            UUIDSourceTuple(ArtifactStore(1).uuid,
                            resolve_class(ArtifactStore(1).cls))),
     orchestrator_map |-> EmptyMap]

\* What the caller of the earlier run registered: the live components.
EarlierRegistered ==
    [provider |-> EmptyMap,
     artifact |-> Put(EmptyMap, "a1", ArtifactStore(1)),
     metadata |-> Put(EmptyMap, "m1", MetadataStore(1))]
NothingRegistered ==
    [provider |-> EmptyMap, artifact |-> EmptyMap, metadata |-> EmptyMap]

\* The two callers of the concurrent specification, and what each does.
Callers == {"c1", "c2"}
Calling(mode, call) ==
    [mode |-> mode,
     lock |-> {},
     pc |-> [i \in Callers |-> "start"],
     result |-> [i \in Callers |-> ""],
     call |-> call,
     taken |-> {},
     own |-> EmptyService]
NoCallers ==
    [Calling("single", [i \in Callers |-> None])
        EXCEPT !.pc = [i \in Callers |-> "done"]]

\* The service constructed over zenservice.json with this content.
Loaded(file) ==
    /\ service_file = file
    /\ providers = Load(file).providers
    /\ metadata_store_map = Load(file).metadata_store_map
    /\ artifact_store_map = Load(file).artifact_store_map
    /\ orchestrator_map = Load(file).orchestrator_map
    /\ component_files =
          IF file = NoFile THEN {}
          ELSE {ArtifactStore(1).uuid, MetadataStore(1).uuid}
    /\ registered =
          IF file = NoFile THEN NothingRegistered ELSE EarlierRegistered
    /\ injected = 0
    /\ last = [op |-> "init", kind |-> "service", key |-> "", arg |-> None,
               result |-> "ok", ret |-> None, log |-> <<>>,
               after_delete |-> FALSE]

Init ==
    \E file \in {NoFile, Serialize(EarlierRun)} :
        /\ Loaded(file)
        /\ callers = NoCallers

(***************************************************************************)
(* The methods of LocalService.  A method maps the service state to an     *)
(* outcome: the state it leaves, the exception it raised ("" for a normal  *)
(* return) and the value it returned (for an exception: the offending key  *)
(* and the available keys its message carries).                            *)
(***************************************************************************)
Outcome(s, raised, value) == [state |-> s, raised |-> raised, value |-> value]
DoesNotExist(key, mapping) == [key |-> key, available |-> DOMAIN mapping]
AlreadyExists(key) == [key |-> key]

\* The end of a method body: return value, or the exception a statement raised.
Return(s, value) == Outcome(s, s.raised, IF s.raised = "" THEN value ELSE None)

\* mapping_utils.get_component_from_key as called by get_*: it may fail.
resolve(s, key, mapping) ==
    IF s.fault = "resolver"
    THEN Return(Raise(s, "ResolverError", <<"resolve", key, "raised">>), None)
    ELSE Return(s, get_component_from_key(key, mapping))

metadata_stores(s) ==
    get_components_from_store("metadata_stores", s.metadata_store_map)

\* Variant: the view built from metadata_store_map (a copy-paste slip).
artifact_stores_of_metadata(s) ==
    get_components_from_store("artifact_stores", s.metadata_store_map)

artifact_stores(s) ==
    get_components_from_store("artifact_stores", s.artifact_store_map)

orchestrators(s) == EmptyMap

\* Variant: the lookup re-persists the service.
get_provider_persists(s, key) ==
    IF key \notin DOMAIN s.providers
    THEN Outcome(s, "DoesNotExistException", DoesNotExist(key, s.providers))
    ELSE Return(service_update(s), s.providers[key])

get_provider(s, key) ==
    IF key \notin DOMAIN s.providers
    THEN Outcome(s, "DoesNotExistException", DoesNotExist(key, s.providers))
    ELSE Outcome(s, "", s.providers[key])

\* Variant: the closing self.update() forgotten.
register_provider_no_update(s, key, provider) ==
    IF key \in DOMAIN s.providers
    THEN Outcome(s, "AlreadyExistsException", AlreadyExists(key))
    ELSE Return(set_item(s, "provider", key, provider), None)

\* Variant: the entry is taken back when self.update() fails.
register_provider_rollback(s, key, provider) ==
    IF key \in DOMAIN s.providers
    THEN Outcome(s, "AlreadyExistsException", AlreadyExists(key))
    ELSE LET s1 == set_item(s, "provider", key, provider)
             s2 == service_update(s1)
         IN  IF s2.raised # ""
             THEN Return([s2 EXCEPT !.providers = s.providers], None)
             ELSE Return(s2, None)

register_provider(s, key, provider) ==
    IF key \in DOMAIN s.providers
    THEN Outcome(s, "AlreadyExistsException", AlreadyExists(key))
    ELSE LET s1 == set_item(s, "provider", key, provider)
             s2 == service_update(s1)
         IN  Return(s2, None)

\* Variant: the entry is not removed, only the service re-persisted.
delete_provider_keeps_entry(s, key) ==
    LET got == get_provider(s, key)
    IN  IF got.raised # ""
        THEN got
        ELSE Return(service_update(got.state), None)

delete_provider(s, key) ==
    LET got == get_provider(s, key)
    IN  IF got.raised # ""
        THEN got
        ELSE LET s1 == del_item(got.state, "provider", key)
                 s2 == service_update(s1)
             IN  Return(s2, None)

get_artifact_store(s, key) ==
    IF key \notin DOMAIN s.artifact_store_map
    THEN Outcome(s, "DoesNotExistException", DoesNotExist(key, s.artifact_store_map))
    ELSE resolve(s, key, s.artifact_store_map)

\* Variant: the existence check forgotten, the entry overwritten.
register_artifact_store_overwrite(s, key, artifact_store) ==
    LET s1 == component_update(s, artifact_store)
        source == resolve_class(artifact_store.cls)
        s2 == set_item(s1, "artifact", key,
                       UUIDSourceTuple(artifact_store.uuid, source))
        s3 == service_update(s2)
    IN  Return(s3, None)

\* Variant: the reference recorded before the component is persisted.
register_artifact_store_entry_first(s, key, artifact_store) ==
    IF key \in DOMAIN s.artifact_store_map
    THEN Outcome(s, "AlreadyExistsException", AlreadyExists(key))
    ELSE LET source == resolve_class(artifact_store.cls)
             s1 == set_item(s, "artifact", key,
                            UUIDSourceTuple(artifact_store.uuid, source))
             s2 == component_update(s1, artifact_store)
             s3 == service_update(s2)
         IN  Return(s3, None)

register_artifact_store(s, key, artifact_store) ==
    IF key \in DOMAIN s.artifact_store_map
    THEN Outcome(s, "AlreadyExistsException", AlreadyExists(key))
    ELSE LET s1 == component_update(s, artifact_store)
             source == resolve_class(artifact_store.cls)
             s2 == set_item(s1, "artifact", key,
                            UUIDSourceTuple(artifact_store.uuid, source))
             s3 == service_update(s2)
         IN  Return(s3, None)

\* Variant: a missing key is ignored (pop with a default) instead of checked.
delete_artifact_store_silent(s, key) ==
    IF key \notin DOMAIN s.artifact_store_map
    THEN Return(service_update(s), None)
    ELSE LET s1 == component_delete(s, get_component_from_key(key, s.artifact_store_map))
             s2 == del_item(s1, "artifact", key)
             s3 == service_update(s2)
         IN  Return(s3, None)

\* Variant: the entry removed before the component is deleted.
delete_artifact_store_entry_first(s, key) ==
    LET got == get_artifact_store(s, key)
    IN  IF got.raised # ""
        THEN got
        ELSE LET s1 == del_item(got.state, "artifact", key)
                 s2 == component_delete(s1, got.value)
                 s3 == service_update(s2)
             IN  Return(s3, None)

delete_artifact_store(s, key) ==
    LET got == get_artifact_store(s, key)
    IN  IF got.raised # ""
        THEN got
        ELSE LET s1 == component_delete(got.state, got.value)
                 s2 == del_item(s1, "artifact", key)
                 s3 == service_update(s2)
             IN  Return(s3, None)

\* Variant: the message lists the keys of artifact_store_map (a copy-paste slip).
get_metadata_store_wrong_keys(s, key) ==
    IF key \notin DOMAIN s.metadata_store_map
    THEN Outcome(s, "DoesNotExistException", DoesNotExist(key, s.artifact_store_map))
    ELSE resolve(s, key, s.metadata_store_map)

get_metadata_store(s, key) ==
    IF key \notin DOMAIN s.metadata_store_map
    THEN Outcome(s, "DoesNotExistException", DoesNotExist(key, s.metadata_store_map))
    ELSE resolve(s, key, s.metadata_store_map)

\* Variant: the reference recorded in artifact_store_map (a copy-paste slip).
register_metadata_store_wrong_map(s, key, metadata_store) ==
    IF key \in DOMAIN s.metadata_store_map
    THEN Outcome(s, "AlreadyExistsException", AlreadyExists(key))
    ELSE LET s1 == component_update(s, metadata_store)
             source == resolve_class(metadata_store.cls)
             s2 == set_item(s1, "artifact", key,
                            UUIDSourceTuple(metadata_store.uuid, source))
             s3 == service_update(s2)
         IN  Return(s3, None)

\* Variant: the component persisted after the service.
register_metadata_store_update_last(s, key, metadata_store) ==
    IF key \in DOMAIN s.metadata_store_map
    THEN Outcome(s, "AlreadyExistsException", AlreadyExists(key))
    ELSE LET source == resolve_class(metadata_store.cls)
             s1 == set_item(s, "metadata", key,
                            UUIDSourceTuple(metadata_store.uuid, source))
             s2 == service_update(s1)
             s3 == component_update(s2, metadata_store)
         IN  Return(s3, None)

register_metadata_store(s, key, metadata_store) ==
    IF key \in DOMAIN s.metadata_store_map
    THEN Outcome(s, "AlreadyExistsException", AlreadyExists(key))
    ELSE LET s1 == component_update(s, metadata_store)
             source == resolve_class(metadata_store.cls)
             s2 == set_item(s1, "metadata", key,
                            UUIDSourceTuple(metadata_store.uuid, source))
             s3 == service_update(s2)
         IN  Return(s3, None)

\* Variant: self.update() called before the entry is removed.
delete_metadata_store_update_first(s, key) ==
    LET got == get_metadata_store(s, key)
    IN  IF got.raised # ""
        THEN got
        ELSE LET s1 == component_delete(got.state, got.value)
                 s2 == service_update(s1)
                 s3 == del_item(s2, "metadata", key)
             IN  Return(s3, None)

\* Variant: the entry removed from artifact_store_map (a copy-paste slip).
delete_metadata_store_wrong_map(s, key) ==
    LET got == get_metadata_store(s, key)
    IN  IF got.raised # ""
        THEN got
        ELSE LET s1 == component_delete(got.state, got.value)
                 s2 == del_item(s1, "artifact", key)
                 s3 == service_update(s2)
             IN  Return(s3, None)

delete_metadata_store(s, key) ==
    LET got == get_metadata_store(s, key)
    IN  IF got.raised # ""
        THEN got
        ELSE LET s1 == component_delete(got.state, got.value)
                 s2 == del_item(s1, "metadata", key)
                 s3 == service_update(s2)
             IN  Return(s3, None)

\* The iteration orders of a dict's values: every order of its keys.
Orders(mapping) ==
    {q \in [1..Cardinality(DOMAIN mapping) -> DOMAIN mapping] :
        \A i, j \in DOMAIN q : i # j => q[i] # q[j]}

\* for c in components.values(): c.delete()
RECURSIVE delete_each(_, _, _)
delete_each(s, components, order) ==
    IF order = <<>>
    THEN s
    ELSE delete_each(component_delete(s, components[Head(order)]),
                     components, Tail(order))

\* Variant: the artifact stores deleted before the metadata stores.
delete_artifacts_first(s, m_order, a_order) ==
    LET s1 == delete_each(s, artifact_stores(s), a_order)
        s2 == delete_each(s1, metadata_stores(s1), m_order)
        s3 == service_delete(s2)
    IN  Return(s3, None)

\* LocalService.delete, the metadata stores visited in m_order and the
\* artifact stores in a_order.
delete(s, m_order, a_order) ==
    LET s1 == delete_each(s, metadata_stores(s), m_order)
        s2 == delete_each(s1, artifact_stores(s1), a_order)
        s3 == service_delete(s2)
    IN  Return(s3, None)

(***************************************************************************)
(* Actions: one call of one method by the single caller.                   *)
(***************************************************************************)
Record(kind, key, arg, out, op) ==
    IF out.raised # ""
    THEN registered
    ELSE IF op = "register"
         THEN [registered EXCEPT ![kind] = Put(@, key, arg)]
         ELSE IF op = "delete"
              THEN [registered EXCEPT ![kind] = Del(@, key)]
              ELSE registered

\* Whether the call made last was a successful delete of this kind and key.
JustDeleted(kind, key) ==
    /\ last.op = "delete"
    /\ last.result = "ok"
    /\ last.kind = kind
    /\ last.key = key

Call(op, kind, key, arg, out) ==
    /\ Commit(out.state)
    /\ last' = [op |-> op, kind |-> kind, key |-> key, arg |-> arg,
                result |-> IF out.raised = "" THEN "ok" ELSE out.raised,
                ret |-> out.value, log |-> out.state.log,
                after_delete |-> JustDeleted(kind, key)]
    /\ registered' = Record(kind, key, arg, out, op)
    /\ UNCHANGED callers

\* A call during which no collaborator fails.
Do(op, kind, key, arg, out) ==
    /\ Call(op, kind, key, arg, out)
    /\ UNCHANGED injected

\* The model registers a new key only while the service holds fewer than
\* MaxEntries entries.
Entries ==
    Cardinality(DOMAIN providers) + Cardinality(DOMAIN metadata_store_map)
        + Cardinality(DOMAIN artifact_store_map)
Room(mapping, key) == key \in DOMAIN mapping \/ Entries < MaxEntries

GetProvider ==
    \E key \in Keys : Do("get", "provider", key, None, get_provider(Self, key))

RegisterProvider ==
    \E key \in Keys, provider \in Providers :
        /\ Room(providers, key)
        /\ Do("register", "provider", key, provider,
           register_provider(Self, key, provider))

DeleteProvider ==
    \E key \in Keys :
        Do("delete", "provider", key, None, delete_provider(Self, key))

GetArtifactStore ==
    \E key \in Keys :
        Do("get", "artifact", key, None, get_artifact_store(Self, key))

RegisterArtifactStore ==
    \E key \in Keys, artifact_store \in ArtifactStores :
        /\ Room(artifact_store_map, key)
        /\ Do("register", "artifact", key, artifact_store,
           register_artifact_store(Self, key, artifact_store))

DeleteArtifactStore ==
    \E key \in Keys :
        Do("delete", "artifact", key, None, delete_artifact_store(Self, key))

GetMetadataStore ==
    \E key \in Keys :
        Do("get", "metadata", key, None, get_metadata_store(Self, key))

RegisterMetadataStore ==
    \E key \in Keys, metadata_store \in MetadataStores :
        /\ Room(metadata_store_map, key)
        /\ Do("register", "metadata", key, metadata_store,
           register_metadata_store(Self, key, metadata_store))

DeleteMetadataStore ==
    \E key \in Keys :
        Do("delete", "metadata", key, None, delete_metadata_store(Self, key))

ViewMetadataStores ==
    Do("view", "metadata", "", None, Outcome(Self, "", metadata_stores(Self)))

ViewArtifactStores ==
    Do("view", "artifact", "", None, Outcome(Self, "", artifact_stores(Self)))

ViewOrchestrators ==
    Do("view", "orchestrator", "", None, Outcome(Self, "", orchestrators(Self)))

DeleteService ==
    \E m_order \in Orders(metadata_store_map), a_order \in Orders(artifact_store_map) :
        Do("delete_all", "service", "", None, delete(Self, m_order, a_order))

Next ==
    \/ GetProvider
    \/ RegisterProvider
    \/ DeleteProvider
    \/ GetArtifactStore
    \/ RegisterArtifactStore
    \/ DeleteArtifactStore
    \/ GetMetadataStore
    \/ RegisterMetadataStore
    \/ DeleteMetadataStore
    \/ ViewMetadataStores
    \/ ViewArtifactStores
    \/ ViewOrchestrators
    \/ DeleteService

Spec == Init /\ [][Next]_vars

(***************************************************************************)
(* Calls during which a collaborator may fail: the component's update() or *)
(* delete(), the resolver, or the write of zenservice.json.  A failed call *)
(* raises and leaves the file it was to write or remove as it was.         *)
(***************************************************************************)
\* The errors of the collaborators.
Failures == {"ComponentError", "PersistError", "ResolverError"}

\* The model makes a collaborator fail in at most MaxFaults calls, and only
\* in calls on these keys.
FaultKeys == {"a1"}

DoFaulty(fault, op, kind, key, arg, out) ==
    /\ fault = "none" \/ injected < MaxFaults
    /\ Call(op, kind, key, arg, out)
    /\ injected' = IF out.raised \in Failures THEN injected + 1 ELSE injected

RegisterProviderFaulty ==
    \E key \in FaultKeys, provider \in Providers, fault \in {"none", "service_update"} :
        /\ Room(providers, key)
        /\ DoFaulty(fault, "register", "provider", key, provider,
                    register_provider(Faulty(fault), key, provider))

DeleteProviderFaulty ==
    \E key \in FaultKeys, fault \in {"none", "service_update"} :
        DoFaulty(fault, "delete", "provider", key, None,
                 delete_provider(Faulty(fault), key))

RegisterArtifactStoreFaulty ==
    \E key \in FaultKeys, artifact_store \in ArtifactStores,
       fault \in {"none", "component_update", "service_update"} :
        /\ Room(artifact_store_map, key)
        /\ DoFaulty(fault, "register", "artifact", key, artifact_store,
                    register_artifact_store(Faulty(fault), key, artifact_store))

DeleteArtifactStoreFaulty ==
    \E key \in FaultKeys,
       fault \in {"none", "resolver", "component_delete", "service_update"} :
        DoFaulty(fault, "delete", "artifact", key, None,
                 delete_artifact_store(Faulty(fault), key))

RegisterMetadataStoreFaulty ==
    \E key \in FaultKeys, metadata_store \in MetadataStores,
       fault \in {"none", "component_update", "service_update"} :
        /\ Room(metadata_store_map, key)
        /\ DoFaulty(fault, "register", "metadata", key, metadata_store,
                    register_metadata_store(Faulty(fault), key, metadata_store))

DeleteMetadataStoreFaulty ==
    \E key \in FaultKeys,
       fault \in {"none", "resolver", "component_delete", "service_update"} :
        DoFaulty(fault, "delete", "metadata", key, None,
                 delete_metadata_store(Faulty(fault), key))

NextFaults ==
    \/ RegisterProviderFaulty
    \/ DeleteProviderFaulty
    \/ RegisterArtifactStoreFaulty
    \/ DeleteArtifactStoreFaulty
    \/ RegisterMetadataStoreFaulty
    \/ DeleteMetadataStoreFaulty

SpecFaults == Init /\ [][NextFaults]_vars

(***************************************************************************)
(* The single caller registering and deleting stores by key, nothing else. *)
(***************************************************************************)
NextStores ==
    \/ RegisterArtifactStore
    \/ DeleteArtifactStore
    \/ RegisterMetadataStore
    \/ DeleteMetadataStore

SpecStores == Init /\ [][NextStores]_vars

(***************************************************************************)
(* Two callers of register_artifact_store, each running the method's       *)
(* statements one at a time inside a critical section (an exclusive lock). *)
(* In mode "shared" the two share one LocalService; in mode "separate"     *)
(* they are two processes, each with the mappings it loaded from           *)
(* zenservice.json at startup: those of "c1" are the variables of the      *)
(* service, those of "c2" are callers.own.  The files are shared.          *)
(***************************************************************************)
Modes == {"shared", "separate"}

InitCallers ==
    \E file \in {NoFile, Serialize(EarlierRun)}, mode \in Modes,
       call \in [Callers -> [key : Keys, artifact_store : ArtifactStores]] :
        /\ Loaded(file)
        /\ callers = [Calling(mode, call)
                         EXCEPT !.taken = DOMAIN Load(file).artifact_store_map,
                                !.own = Load(file)]

OwnCopy(i) == callers.mode = "separate" /\ i = "c2"

\* The service as caller i sees it.
View(i) ==
    IF OwnCopy(i)
    THEN [Self EXCEPT !.providers = callers.own.providers,
                      !.metadata_store_map = callers.own.metadata_store_map,
                      !.artifact_store_map = callers.own.artifact_store_map,
                      !.orchestrator_map = callers.own.orchestrator_map]
    ELSE Self

\* Caller i has made a step that left its service as s.
Step(i, s, pc, result) ==
    /\ service_file' = s.service_file
    /\ component_files' = s.component_files
    /\ IF OwnCopy(i)
       THEN UNCHANGED <<providers, metadata_store_map, artifact_store_map,
                        orchestrator_map>>
       ELSE /\ providers' = s.providers
            /\ metadata_store_map' = s.metadata_store_map
            /\ artifact_store_map' = s.artifact_store_map
            /\ orchestrator_map' = s.orchestrator_map
    /\ callers' = [callers EXCEPT !.pc[i] = pc,
                                  !.result[i] = result,
                                  !.own = IF OwnCopy(i) THEN Mappings(s) ELSE @]
    /\ UNCHANGED <<last, registered, injected>>

\* Variant: the key check forgotten.
artifact_store_key_never_taken(s, key) == FALSE

\* if key in self.artifact_store_map
artifact_store_key_taken(s, key) == key \in DOMAIN s.artifact_store_map

Acquire ==
    \E i \in Callers :
        /\ callers.pc[i] = "start"
        /\ callers.lock = {}
        /\ callers' = [callers EXCEPT !.lock = {i}, !.pc[i] = "check"]
        /\ UNCHANGED <<ServiceState, last, registered, injected>>

CheckKey ==
    \E i \in Callers :
        /\ callers.pc[i] = "check"
        /\ IF artifact_store_key_taken(View(i), callers.call[i].key)
           THEN Step(i, View(i), "release", "AlreadyExistsException")
           ELSE Step(i, View(i), "update", "")

UpdateComponent ==
    \E i \in Callers :
        /\ callers.pc[i] = "update"
        /\ Step(i, component_update(View(i), callers.call[i].artifact_store),
                "set", "")

SetEntry ==
    \E i \in Callers :
        /\ callers.pc[i] = "set"
        /\ Step(i, set_item(View(i), "artifact", callers.call[i].key,
                            UUIDSourceTuple(
                                callers.call[i].artifact_store.uuid,
                                resolve_class(callers.call[i].artifact_store.cls))),
                "persist", "")

Persist ==
    \E i \in Callers :
        /\ callers.pc[i] = "persist"
        /\ Step(i, service_update(View(i)), "release", "ok")

Release ==
    \E i \in Callers :
        /\ callers.pc[i] = "release"
        /\ callers' = [callers EXCEPT !.lock = @ \ {i}, !.pc[i] = "done"]
        /\ UNCHANGED <<ServiceState, last, registered, injected>>

NextCallers ==
    \/ Acquire
    \/ CheckKey
    \/ UpdateComponent
    \/ SetEntry
    \/ Persist
    \/ Release

SpecCallers == InitCallers /\ [][NextCallers]_vars

(***************************************************************************)
(* Properties.                                                             *)
(***************************************************************************)
Kinds == {"provider", "artifact", "metadata"}

MapIn(s, kind) ==
    CASE kind = "provider" -> s.providers
      [] kind = "artifact" -> s.artifact_store_map
      [] kind = "metadata" -> s.metadata_store_map
MapOf(kind) == MapIn(Self, kind)

\* The value get(key) returns for an entry, given what was registered as v.
Resolves(kind, ret, v) ==
    IF kind = "provider"
    THEN ret = v
    ELSE ret.uuid = v.uuid /\ resolve_class(ret.cls) = resolve_class(v.cls)

\* C1: register(k, v2) on a key already in the mapping raises
\* AlreadyExistsException and changes nothing: the three mappings, the
\* persisted file and the component files are as before, the entry of k is
\* the original one, and no update() (of the component or of the service)
\* was invoked.
C1_RegisterExistingFails ==
    [][(last'.op = "register" /\ last'.key \in DOMAIN MapOf(last'.kind))
          => /\ last'.result = "AlreadyExistsException"
             /\ UNCHANGED ServiceState
             /\ MapIn(Self', last'.kind)[last'.key] = MapOf(last'.kind)[last'.key]
             /\ last'.log = <<>>]_vars

\* A second artifact store was offered under a key that holds another one.
C1_Witness ==
    /\ last.op = "register"
    /\ last.kind = "artifact"
    /\ last.result = "AlreadyExistsException"
    /\ last.key \in DOMAIN artifact_store_map
    /\ artifact_store_map[last.key].uuid # last.arg.uuid
    /\ last.arg.uuid \notin component_files

\* C2: register(k, v) on a key absent from the mapping returns normally, and
\* every later get(k), as long as k has not been deleted, returns v (for a
\* store: the component with v's uuid and v's source locator).
C2_RegisterThenGet ==
    [][/\ (last'.op = "register" /\ last'.key \notin DOMAIN MapOf(last'.kind))
            => last'.result = "ok"
       /\ (last'.op = "get" /\ last'.key \in DOMAIN registered[last'.kind])
            => /\ last'.result = "ok"
               /\ Resolves(last'.kind, last'.ret,
                           registered[last'.kind][last'.key])]_vars

\* A get returned the metadata store that this run registered.
C2_Witness ==
    /\ last.op = "get"
    /\ last.kind = "metadata"
    /\ last.result = "ok"
    /\ last.ret = MetadataStore(2)
    /\ registered.metadata[last.key] = MetadataStore(2)

\* C3: get(k) and delete(k) on a key absent from the mapping raise
\* DoesNotExistException and change nothing: the mappings, the persisted
\* file and the component files are as before and no delete() or update()
\* was invoked.
C3_AbsentKeyFails ==
    [][(last'.op \in {"get", "delete"} /\ last'.key \notin DOMAIN MapOf(last'.kind))
          => /\ last'.result = "DoesNotExistException"
             /\ UNCHANGED ServiceState
             /\ last'.log = <<>>]_vars

\* A delete of an absent artifact store key failed while other stores exist.
C3_Witness ==
    /\ last.op = "delete"
    /\ last.kind = "artifact"
    /\ last.result = "DoesNotExistException"
    /\ last.key \notin DOMAIN artifact_store_map
    /\ component_files # {}
    /\ service_file # NoFile

\* C4: after delete(k) returned normally k is absent from the mapping; a
\* delete(k) made right after it raises DoesNotExistException, and so does
\* every get(k) or delete(k) until k is registered again.
C4_DeleteRemoves ==
    [][/\ (last'.op = "delete" /\ last'.result = "ok")
            => last'.key \notin DOMAIN MapIn(Self', last'.kind)
       /\ (last'.op \in {"get", "delete"} /\ JustDeleted(last'.kind, last'.key))
            => last'.result = "DoesNotExistException"
       /\ (last'.op \in {"get", "delete"}
              /\ last'.key \notin DOMAIN registered[last'.kind])
            => last'.result = "DoesNotExistException"]_vars

\* The second of two deletes of the same provider key in a row failed.
C4_Witness ==
    /\ last.op = "delete"
    /\ last.kind = "provider"
    /\ last.after_delete
    /\ last.result = "DoesNotExistException"

\* What get(key) raises in the current state ("" when it returns).
GetRaises(kind, key) ==
    CASE kind = "provider" -> get_provider(Self, key).raised
      [] kind = "artifact" -> get_artifact_store(Self, key).raised
      [] kind = "metadata" -> get_metadata_store(Self, key).raised

\* C5: when delete-all has completed, the file of every registered metadata
\* and artifact store is gone, get of every key registered before fails,
\* and zenservice.json no longer exists.
C5_DeleteAllLeavesNothing ==
    (last.op = "delete_all" /\ last.result = "ok")
        => /\ \A kind \in {"artifact", "metadata"} :
                \A k \in DOMAIN registered[kind] :
                    registered[kind][k].uuid \notin component_files
           /\ \A kind \in Kinds :
                \A k \in DOMAIN registered[kind] :
                    GetRaises(kind, k) = "DoesNotExistException"
           /\ service_file = NoFile

\* C6: right after a successful register, a service loaded from
\* zenservice.json has the same keys in each mapping as the service in
\* memory, each store key with the same (uuid, source) and each provider
\* key with the same provider.
C6_RoundTrip ==
    (last.op = "register" /\ last.result = "ok")
        => /\ service_file # NoFile
           /\ Load(service_file) = Mappings(Self)

\* Two keys, a provider and a metadata store, were registered and persisted.
C6_Witness ==
    /\ last.op = "register"
    /\ last.result = "ok"
    /\ Entries >= 2
    /\ DOMAIN providers # {}
    /\ DOMAIN metadata_store_map # {}
    /\ Entries = Cardinality(DOMAIN Load(service_file).providers)
                    + Cardinality(DOMAIN Load(service_file).metadata_store_map)

\* C7: whenever a register or a delete(k) has returned normally,
\* zenservice.json holds the serialized form of the mappings in memory, and
\* the last effect of the call was the write of the whole service; between
\* calls a zenservice.json that exists never differs from the mappings.
C7_PersistedConsistency ==
    /\ service_file # NoFile => service_file = Serialize(Self)
    /\ (last.op \in {"register", "delete"} /\ last.result = "ok")
        => /\ service_file = Serialize(Self)
           /\ Len(last.log) > 0
           /\ last.log[Len(last.log)] = <<"service_update">>

\* A metadata store was deleted while another entry stays registered.
C7_Witness ==
    /\ last.op = "delete"
    /\ last.kind = "metadata"
    /\ last.result = "ok"
    /\ Entries >= 1
    /\ service_file # NoFile

\* The entry of key in the mapping of kind is the same in s and t.
SameEntry(s, t, kind, key) ==
    /\ key \in DOMAIN MapIn(s, kind) <=> key \in DOMAIN MapIn(t, kind)
    /\ key \in DOMAIN MapIn(s, kind) => MapIn(s, kind)[key] = MapIn(t, kind)[key]

\* Every store the caller registered and has not deleted is held under its
\* key with the uuid and the source locator it was registered with.
ReferencesStable ==
    \A kind \in {"artifact", "metadata"} :
        \A k \in DOMAIN registered[kind] :
            /\ k \in DOMAIN MapOf(kind)
            /\ MapOf(kind)[k] =
                  UUIDSourceTuple(registered[kind][k].uuid,
                                  resolve_class(registered[kind][k].cls))

\* C8: a register or delete on key k of one mapping changes no entry but
\* that of k in that mapping (so one key string can be held by several
\* mappings at once), and a registered reference keeps its uuid and source
\* locator until delete(k) on its own mapping.
C8_Frame ==
    [][/\ last'.op \in {"register", "delete"}
            => /\ \A kind \in Kinds : \A k \in Keys :
                     (kind # last'.kind \/ k # last'.key)
                        => SameEntry(Self, Self', kind, k)
               /\ orchestrator_map' = orchestrator_map
       /\ ReferencesStable
       /\ ReferencesStable']_vars

\* A provider was registered under a key that an artifact store also holds.
C8_Witness ==
    /\ last.op = "register"
    /\ last.kind = "provider"
    /\ last.result = "ok"
    /\ last.key \in DOMAIN providers
    /\ last.key \in DOMAIN artifact_store_map

StoreUuids(mapping) == {mapping[k].uuid : k \in DOMAIN mapping}

\* C9: the effects of delete-all are, in this order: delete() of every
\* registered metadata store, delete() of every registered artifact store,
\* removal of zenservice.json; nothing else, and no orchestrator exists to
\* be touched.
C9_DeleteAllOrder ==
    /\ orchestrator_map = EmptyMap
    /\ last.op = "delete_all"
        => LET log == last.log
               n == Len(log)
               m_uuids == StoreUuids(metadata_store_map)
               a_uuids == StoreUuids(artifact_store_map)
           IN  /\ n >= 1
               /\ log[n] = <<"service_delete">>
               /\ \A i \in 1..(n - 1) :
                     /\ log[i][1] = "component_delete"
                     /\ log[i][2] \in m_uuids \cup a_uuids
               /\ \A u \in m_uuids \cup a_uuids :
                     \E i \in 1..(n - 1) : log[i] = <<"component_delete", u>>
               /\ \A i, j \in 1..(n - 1) :
                     (log[i][2] \in m_uuids /\ log[j][2] \in a_uuids) => i < j

\* delete-all ran on a service that held a metadata and an artifact store.
C9_Witness ==
    /\ last.op = "delete_all"
    /\ DOMAIN metadata_store_map # {}
    /\ DOMAIN artifact_store_map # {}
    /\ Len(last.log) = 3

\* view holds one component per reference of mapping, with its uuid.
OnePerReference(view, mapping) ==
    /\ DOMAIN view = DOMAIN mapping
    /\ \A k \in DOMAIN mapping : view[k].uuid = mapping[k].uuid

\* C10: in every state the artifact_stores and metadata_stores views have
\* the keys of their reference mapping and under each key the component
\* with that reference's uuid, and the orchestrators view is empty; so is
\* what a call of a view returned.
C10_Views ==
    /\ OnePerReference(metadata_stores(Self), metadata_store_map)
    /\ OnePerReference(artifact_stores(Self), artifact_store_map)
    /\ orchestrators(Self) = EmptyMap
    /\ (last.op = "view" /\ last.kind = "metadata")
          => OnePerReference(last.ret, metadata_store_map)
    /\ (last.op = "view" /\ last.kind = "artifact")
          => OnePerReference(last.ret, artifact_store_map)
    /\ (last.op = "view" /\ last.kind = "orchestrator") => last.ret = EmptyMap

\* The artifact_stores view returned two components while a metadata store
\* is registered too.
C10_Witness ==
    /\ last.op = "view"
    /\ last.kind = "artifact"
    /\ Cardinality(DOMAIN last.ret) = 2
    /\ Cardinality(DOMAIN artifact_store_map) = 2

\* C11: a DoesNotExistException raised by get(k) or delete(k) carries k and
\* the keys that the same mapping holds; on a service with no entries the
\* available keys are the empty set.
C11_NotFoundCarriesKeys ==
    (last.op \in {"get", "delete"} /\ last.result = "DoesNotExistException")
        => /\ last.ret.key = last.key
           /\ last.ret.available = DOMAIN MapOf(last.kind)
           /\ Entries = 0 => last.ret.available = {}

\* A get of an absent metadata store key listed the one key that is valid,
\* while artifact_store_map holds other keys.
C11_Witness ==
    /\ last.op = "get"
    /\ last.kind = "metadata"
    /\ last.result = "DoesNotExistException"
    /\ last.ret.available # {}
    /\ last.ret.available # DOMAIN artifact_store_map

\* C12: a successful register(k, c) of a store has exactly these effects in
\* this order: c.update(), the reference (c.uuid, source of c's class)
\* recorded under k, self.update(); so the file of c exists when
\* zenservice.json comes to hold the reference.
C12_RegisterOrder ==
    (last.op = "register" /\ last.kind \in {"artifact", "metadata"}
        /\ last.result = "ok")
        => /\ last.log = << <<"component_update", last.arg.uuid>>,
                            <<"set_item", last.kind, last.key>>,
                            <<"service_update">> >>
           /\ last.arg.uuid \in component_files
           /\ MapIn(Load(service_file), last.kind)[last.key] =
                 UUIDSourceTuple(last.arg.uuid, resolve_class(last.arg.cls))

\* A metadata store whose file did not exist at the start of the run was
\* registered.
C12_Witness ==
    /\ last.op = "register"
    /\ last.kind = "metadata"
    /\ last.result = "ok"
    /\ last.arg = MetadataStore(2)
    /\ last.key \in DOMAIN metadata_store_map

\* C13: a successful delete(k) of a store has exactly these effects in this
\* order: delete() of the resolved component, removal of k from the
\* mapping, self.update(); a successful delete(k) of a provider only
\* removes k and calls self.update().
C13_DeleteOrder ==
    /\ (last.op = "delete" /\ last.kind \in {"artifact", "metadata"}
          /\ last.result = "ok")
          => /\ Len(last.log) = 3
             /\ last.log[1][1] = "component_delete"
             /\ Len(last.log[1]) = 2
             /\ last.log[1][2] \notin component_files
             /\ last.log[2] = <<"del_item", last.kind, last.key>>
             /\ last.log[3] = <<"service_update">>
    /\ (last.op = "delete" /\ last.kind = "provider" /\ last.result = "ok")
          => last.log = << <<"del_item", "provider", last.key>>,
                           <<"service_update">> >>

\* An artifact store was deleted.
C13_Witness ==
    /\ last.op = "delete"
    /\ last.kind = "artifact"
    /\ last.result = "ok"
    /\ last.key \notin DOMAIN artifact_store_map
    /\ service_file # NoFile

\* C18: get_provider, get_artifact_store, get_metadata_store and the three
\* views, whether they return or raise, change no mapping, not
\* zenservice.json and no component file, and call no update() or delete().
C18_ReadsArePure ==
    [][last'.op \in {"get", "view"}
          => /\ UNCHANGED ServiceState
             /\ last'.log = <<>>]_vars

\* A get returned a provider while the mappings are not what the file holds.
C18_Witness ==
    /\ last.op = "get"
    /\ last.kind = "provider"
    /\ last.result = "ok"
    /\ service_file = NoFile

\* The entry that register(key, arg) records in the mapping of kind.
EntryOf(kind, arg) ==
    IF kind = "provider"
    THEN arg
    ELSE UUIDSourceTuple(arg.uuid, resolve_class(arg.cls))

\* The mappings in memory are those a load of zenservice.json would give.
PersistedAgrees(s) == Load(s.service_file) = Mappings(s)

\* What C14 says of a call whose self.update() failed, and of a call that
\* failed validation; `differs` is what it says of memory and file after
\* a failed self.update().
PersistFailureKept(differs) ==
    /\ (last'.result = "PersistError" /\ last'.op = "register")
          => /\ last'.key \in DOMAIN MapIn(Self', last'.kind)
             /\ MapIn(Self', last'.kind)[last'.key] = EntryOf(last'.kind, last'.arg)
             /\ service_file' = service_file
             /\ differs
    /\ (last'.result = "PersistError" /\ last'.op = "delete")
          => /\ last'.key \notin DOMAIN MapIn(Self', last'.kind)
             /\ service_file' = service_file
             /\ differs
    /\ last'.result \in {"AlreadyExistsException", "DoesNotExistException"}
          => UNCHANGED ServiceState

\* C14 as claimed: when self.update() fails at the end of register(k, v) or
\* delete(k) the error reaches the caller, the in-memory mutation stays (k
\* present after register, absent after delete) and the mappings in memory
\* differ from the persisted ones; a validation failure changes nothing.
C14_PersistFailureDiffers ==
    [][PersistFailureKept(~PersistedAgrees(Self'))]_vars

\* C14 as amended: the same, the mappings in memory differing from the
\* persisted ones whenever the two agreed before the call.
C14_PersistFailureNotRolledBack ==
    [][PersistFailureKept(PersistedAgrees(Self) => ~PersistedAgrees(Self'))]_vars

\* The write failed at the end of a delete of an artifact store: the key is
\* gone from memory and still in zenservice.json.
C14_Witness ==
    /\ last.op = "delete"
    /\ last.kind = "artifact"
    /\ last.result = "PersistError"
    /\ last.key \notin DOMAIN artifact_store_map
    /\ service_file # NoFile
    /\ last.key \in DOMAIN Load(service_file).artifact_store_map

\* C15: when the component's update() fails in register(k, c), or the
\* resolver or the component's delete() fails in delete(k), the caller gets
\* that error, the failed call was made once and nothing after it, and the
\* mappings and zenservice.json are as before the call.
C15_ComponentFailureNoCommit ==
    [][last'.result \in {"ComponentError", "ResolverError"}
          => /\ Mappings(Self') = Mappings(Self)
             /\ service_file' = service_file
             /\ Len(last'.log) = 1
             /\ last'.log[1][Len(last'.log[1])] = "raised"
             /\ last'.op = "register"
                   => last'.key \notin DOMAIN MapIn(Self', last'.kind)
             /\ last'.op = "delete"
                   => last'.key \in DOMAIN MapIn(Self', last'.kind)]_vars

\* The delete() of a registered metadata store failed; the key stays.
C15_Witness ==
    /\ last.op = "delete"
    /\ last.kind = "metadata"
    /\ last.result = "ComponentError"
    /\ last.key \in DOMAIN metadata_store_map
    /\ last.log[1][1] = "component_delete"

\* C17: every reference held in artifact_store_map or metadata_store_map is
\* to a component whose own file exists, whatever stores the caller has
\* registered and deleted by key, the same store under two keys included.
C17_NoDanglingReferences ==
    StoreUuids(artifact_store_map) \cup StoreUuids(metadata_store_map)
        \subseteq component_files

\* The uuids of the components whose delete() a call made.
DestroyedBy(log) ==
    {log[i][2] : i \in {j \in DOMAIN log : log[j][1] = "component_delete"}}

\* The uuids the references in zenservice.json name.
PersistedUuids(file) ==
    StoreUuids(Load(file).artifact_store_map)
        \cup StoreUuids(Load(file).metadata_store_map)

\* C19: the call that follows delete-all on the same instance leaves no
\* zenservice.json holding a reference to a component that the delete-all
\* destroyed and that has no file since.
C19_DeleteAllFinal ==
    [][(last.op = "delete_all" /\ last.result = "ok")
          => PersistedUuids(service_file')
                \cap (DestroyedBy(last.log) \ component_files') = {}]_vars

\* Both callers have finished a register of one key that was absent when
\* they started.
BothRegisteredAbsentKey ==
    /\ \A i \in Callers : callers.pc[i] = "done"
    /\ callers.call["c1"].key = callers.call["c2"].key
    /\ callers.call["c1"].key \notin callers.taken

\* Exactly one of the two registers succeeded, the other failed with
\* AlreadyExists, and zenservice.json holds the mappings of every caller.
OneRegisteredAndPersisted ==
    /\ {callers.result[i] : i \in Callers} = {"ok", "AlreadyExistsException"}
    /\ \A i \in Callers : PersistedAgrees(View(i))

\* C16 as claimed: with the whole of each register as a critical section,
\* of two concurrent registers of one absent key exactly one succeeds, the
\* other fails with AlreadyExists, and the persisted registry equals the
\* in-memory mappings once both finish, for two callers sharing one service
\* and for two processes that each loaded zenservice.json at startup.
C16_CriticalSectionAnyCallers ==
    BothRegisteredAbsentKey => OneRegisteredAndPersisted

\* C16 as amended: this holds for two callers sharing one service; of two
\* processes that each loaded zenservice.json at startup both succeed, and
\* zenservice.json holds the mappings of the one that persisted last.
C16_CriticalSection ==
    /\ Cardinality(callers.lock) <= 1
    /\ BothRegisteredAbsentKey
          => IF callers.mode = "shared"
             THEN OneRegisteredAndPersisted
             ELSE /\ \A i \in Callers : callers.result[i] = "ok"
                  /\ \E i \in Callers : PersistedAgrees(View(i))

\* Two callers sharing one service registered the same absent key with
\* different stores: "c2" came first and succeeded, "c1" failed.
C16_Witness ==
    /\ callers.mode = "shared"
    /\ BothRegisteredAbsentKey
    /\ callers.call["c1"].artifact_store # callers.call["c2"].artifact_store
    /\ callers.result["c2"] = "ok"
    /\ callers.result["c1"] = "AlreadyExistsException"
    /\ artifact_store_map[callers.call["c2"].key].uuid
          = callers.call["c2"].artifact_store.uuid

====
